---- MODULE Spec2Model ----
(***************************************************************************)
(* Model of src/src/main.rs: a TCP chat relay.  One listener task accepts  *)
(* connections; every accepted connection gets a clone of the broadcast    *)
(* sender, its own broadcast receiver and a spawned task that loops over   *)
(* tokio::select! { read_line => send, recv => write_all }.                *)
(*                                                                         *)
(* A connection is identified by its slot c \in Conn (the order of         *)
(* accept); its SocketAddr is addr[c].  The channel is kept as the whole   *)
(* sequence of sent values; a receiver is a cursor into it, and only the   *)
(* last BufLen values are still stored by the channel.                     *)
(***************************************************************************)
EXTENDS Integers, Sequences, FiniteSets, TLC

\* ---------------------------------------------------------------- bounds
MaxConn == 3        \* connections accepted in the chat workload
MaxX == 1           \* non-newline bytes the chat clients send in all
MaxNL == 2          \* newline bytes the chat clients send in all
MaxPublish == 3     \* values sent on the channel in the chat workload
MaxHangup == 1      \* clients that end their connection (FIN or RST)
MaxPending == 2     \* bytes of a connection that arrived and are not yet read
FloodConn == 2      \* connections accepted in the flood workload
FloodExtra == 2     \* lines the flooding client sends beyond the buffer length
LiveConn == 2       \* connections accepted in the workload of the fair specification
LivePublish == 2    \* values sent on the channel in that workload

\* ------------------------------------------------------- program constants
Capacity == 10      \* broadcast::channel::<(String, SocketAddr)>(10)

NL == "\n"
Bytes == {"x", NL}

Max(a, b) == IF a >= b THEN a ELSE b
Conn == 1..Max(MaxConn, FloodConn)
Addrs == 1..Max(MaxConn, FloodConn)

RECURSIVE PowerOfTwoFrom(_, _)
PowerOfTwoFrom(p, n) == IF p >= n THEN p ELSE PowerOfTwoFrom(2 * p, n)
\* usize::next_power_of_two: the smallest power of two >= n
NextPowerOfTwo(n) == PowerOfTwoFrom(1, n)
\* broadcast::channel rounds the requested capacity up to a power of two; this
\* is the number of values the channel stores
BufLen == NextPowerOfTwo(Capacity)

VARIABLES
    tcp_listener,   \* "accepting" | "panicked" (accept().await.unwrap() failed: process exits)
    task,           \* per connection: "none" | "spawned" | "select" | "writing" | "panicked"
    addr,           \* per connection: the SocketAddr returned by accept (0: none yet)
    channel,        \* every value sent on the broadcast channel, in send order
    channel_read,   \* per connection: the receiver's cursor (values of channel already passed)
    subscribed_at,  \* per connection: Len(channel) when subscribe() ran
    socket_reader,  \* per connection: bytes that arrived and read_line has not consumed
    read_line,      \* per connection: bytes held by the pending read_line future
    recv_msg,       \* per connection: index in channel of the value write_all is writing (0: none)
    socket_writer,  \* per connection: indices in channel of the values write_all wrote
    peer,           \* per connection: "open" | "eof" (peer sent FIN) | "reset" (peer sent RST)
    sent,           \* per connection: every byte the client sent, in order
    quota           \* the workload still to come: accepts, sends on the channel, hangups,
                    \* accept errors, bytes of each kind, and the clients that send

vars == <<tcp_listener, task, addr, channel, channel_read, subscribed_at, socket_reader,
          read_line, recv_msg, socket_writer, peer, sent, quota>>

\* ---------------------------------------------------------------- helpers
HasNL(s) == \E i \in 1..Len(s) : s[i] = NL
FirstNL(s) == CHOOSE i \in 1..Len(s) : s[i] = NL /\ \A j \in 1..(i - 1) : s[j] # NL

\* A task that holds its socket, its Sender clone and its Receiver
Running(c) == task[c] \in {"spawned", "select", "writing"}
\* Receivers alive: the one returned by channel() is dropped at once (bound to _)
ReceiverCount == Cardinality({c \in Conn : Running(c)})
\* The connection accept returns next
NextConn == CHOOSE c \in Conn : task[c] = "none" /\ \A d \in 1..(c - 1) : task[d] # "none"

\* Faulty variant: the channel keeps every value, no receiver ever lags
LaggedNever(c) == FALSE
\* Receiver::recv: the cursor fell out of the window of stored values
Lagged(c) == channel_read[c] < Len(channel) - BufLen
\* Receiver::recv has something to return (a value or Lagged) without waiting
RecvReady(c) == channel_read[c] < Len(channel)

\* The task ends by a panic: its future is dropped, with the socket halves,
\* the BufReader, the Sender clone and the Receiver
Drop(f, c) == [f EXCEPT ![c] = <<>>]

\* The addresses accept can return: not that of a connection still held by a
\* task.  Addresses are only compared for equality, so the least address never
\* seen stands for every new one; the address of an ended task can come back
UsedAddrs == {addr[c] : c \in {d \in Conn : task[d] # "none"}}
InUseAddrs == {addr[c] : c \in {d \in Conn : Running(d)}}
FreshAddr == CHOOSE a \in Addrs \ UsedAddrs : \A b \in Addrs \ UsedAddrs : a <= b
AcceptAddrs == (UsedAddrs \ InUseAddrs) \cup (IF Addrs \ UsedAddrs = {} THEN {} ELSE {FreshAddr})

\* Faulty variant: the new receiver starts at the oldest value the channel still stores
SubscribeOldest == Max(0, Len(channel) - BufLen)
\* subscribe(): the new receiver starts after everything already sent
Subscribe == Len(channel)
\* Faulty variant: the task subscribes itself when it first runs
StartCursorLate(c) == Len(channel)
\* async move: the receiver made at accept moves into the task as it is
StartCursor(c) == channel_read[c]

\* read_line completes without waiting: a newline arrived, or the stream ended
\* or failed (Ok(0), Ok(n) without a newline, or Err: the result is not looked at)
ReadLineReady(c) == HasNL(socket_reader[c]) \/ peer[c] # "open"
\* The bytes the completing read_line takes from the stream
Consumed(c) ==
    IF HasNL(socket_reader[c])
    THEN SubSeq(socket_reader[c], 1, FirstNL(socket_reader[c]))
    ELSE socket_reader[c]
\* The content of message when read_line returns: what earlier polls of this
\* future collected, then what this poll consumed
Message(c) == read_line[c] \o Consumed(c)
\* channel_send.send((message.clone(), addr))
SendValue(c) == [text |-> Message(c), origin |-> addr[c], from |-> c]
\* Faulty variant: a bounded queue with back-pressure: send waits for the slowest receiver
SendWaitsForSlowest ==
    \E d \in Conn : Running(d) /\ Len(channel) - channel_read[d] >= BufLen
\* Sender::send is not async: it stores the value and returns, whatever the
\* receivers have or have not taken
SendWaits == FALSE
\* Faulty variant: the sender's own receiver is not counted
SendOkOthers == ReceiverCount > 1
\* Sender::send is Err exactly when no receiver is alive
SendOk == ReceiverCount > 0

\* Faulty variant: the comparison dropped: every value is written
NotOwnAlways(c, m) == TRUE
\* Faulty variant: the comparison inverted
NotOwnInverted(c, m) == addr[c] = m.origin
\* if addr != o_addr
NotOwn(c, m) == addr[c] # m.origin
\* Faulty variant: recv returns the value before the cursor again
RecvIndexStale(c) == Max(channel_read[c], 1)
\* Faulty variant: recv counts from the newest value backwards
RecvIndexNewest(c) == Len(channel) - (channel_read[c] - subscribed_at[c])
\* The value recv returns: the one at the cursor
RecvIndex(c) == channel_read[c] + 1

\* ------------------------------------------------------------------- Init
InitProgram ==
    /\ tcp_listener = "accepting"
    /\ task = [c \in Conn |-> "none"]
    /\ addr = [c \in Conn |-> 0]
    /\ channel = <<>>
    /\ channel_read = [c \in Conn |-> 0]
    /\ subscribed_at = [c \in Conn |-> 0]
    /\ socket_reader = [c \in Conn |-> <<>>]
    /\ read_line = [c \in Conn |-> <<>>]
    /\ recv_msg = [c \in Conn |-> 0]
    /\ socket_writer = [c \in Conn |-> <<>>]
    /\ peer = [c \in Conn |-> "open"]
    /\ sent = [c \in Conn |-> <<>>]

\* Chat workload: a few clients, each sending a few bytes, some disconnecting
ChatWorkload ==
    quota = [accept |-> MaxConn, publish |-> MaxPublish, hangup |-> MaxHangup,
             accept_err |-> 0, bytes |-> [b \in Bytes |-> IF b = NL THEN MaxNL ELSE MaxX],
             senders |-> Conn]

\* Flood workload: the first client sends more empty lines than the channel stores
FloodWorkload ==
    quota = [accept |-> FloodConn, publish |-> BufLen + FloodExtra, hangup |-> 0,
             accept_err |-> 1,
             bytes |-> [b \in Bytes |-> IF b = NL THEN BufLen + FloodExtra ELSE 0],
             senders |-> {1}]

\* Hangup workload: no client sends anything and one of them ends its connection
HangupWorkload ==
    quota = [accept |-> FloodConn, publish |-> BufLen + FloodExtra, hangup |-> MaxHangup,
             accept_err |-> 0, bytes |-> [b \in Bytes |-> 0], senders |-> {}]

Init == InitProgram /\ (ChatWorkload \/ FloodWorkload \/ HangupWorkload)

\* ------------------------------------------------------- listener (main)
\* tcp_listener.accept().await.unwrap() returns Ok: clone the sender, subscribe, spawn
Accept(a) ==
    /\ tcp_listener = "accepting"
    /\ quota.accept > 0
    /\ a \in AcceptAddrs
    /\ LET c == NextConn IN
        /\ task' = [task EXCEPT ![c] = "spawned"]
        /\ addr' = [addr EXCEPT ![c] = a]
        /\ channel_read' = [channel_read EXCEPT ![c] = Subscribe]
        /\ subscribed_at' = [subscribed_at EXCEPT ![c] = Len(channel)]
    /\ quota' = [quota EXCEPT !.accept = @ - 1]
    /\ UNCHANGED <<tcp_listener, channel, socket_reader, read_line, recv_msg,
                   socket_writer, peer, sent>>

\* tcp_listener.accept().await.unwrap() on Err: main panics and the process exits
AcceptFail ==
    /\ tcp_listener = "accepting"
    /\ quota.accept_err > 0
    /\ tcp_listener' = "panicked"
    /\ quota' = [quota EXCEPT !.accept_err = @ - 1]
    /\ UNCHANGED <<task, addr, channel, channel_read, subscribed_at, socket_reader,
                   read_line, recv_msg, socket_writer, peer, sent>>

\* ------------------------------------------------------------ the clients
ClientSend(c, b) ==
    /\ tcp_listener = "accepting"
    /\ Running(c)
    /\ peer[c] = "open"
    /\ c \in quota.senders
    /\ quota.bytes[b] > 0
    /\ Len(socket_reader[c]) < MaxPending
    /\ socket_reader' = [socket_reader EXCEPT ![c] = Append(@, b)]
    /\ sent' = [sent EXCEPT ![c] = Append(@, b)]
    /\ quota' = [quota EXCEPT !.bytes[b] = @ - 1]
    /\ UNCHANGED <<tcp_listener, task, addr, channel, channel_read, subscribed_at,
                   read_line, recv_msg, socket_writer, peer>>

\* The client shuts its side down: reads see end-of-stream after the pending bytes
ClientClose(c) ==
    /\ tcp_listener = "accepting"
    /\ Running(c)
    /\ peer[c] = "open"
    /\ quota.hangup > 0
    /\ peer' = [peer EXCEPT ![c] = "eof"]
    /\ quota' = [quota EXCEPT !.hangup = @ - 1]
    /\ UNCHANGED <<tcp_listener, task, addr, channel, channel_read, subscribed_at,
                   socket_reader, read_line, recv_msg, socket_writer, sent>>

\* The connection is reset: reads fail after the pending bytes, writes fail
ClientReset(c) ==
    /\ tcp_listener = "accepting"
    /\ Running(c)
    /\ peer[c] = "open"
    /\ quota.hangup > 0
    /\ peer' = [peer EXCEPT ![c] = "reset"]
    /\ quota' = [quota EXCEPT !.hangup = @ - 1]
    /\ UNCHANGED <<tcp_listener, task, addr, channel, channel_read, subscribed_at,
                   socket_reader, read_line, recv_msg, socket_writer, sent>>

\* ------------------------------------------------- the task of a connection
\* First poll of the spawned task: split the socket, make the BufReader and message
Start(c) ==
    /\ tcp_listener = "accepting"
    /\ task[c] = "spawned"
    /\ task' = [task EXCEPT ![c] = "select"]
    /\ channel_read' = [channel_read EXCEPT ![c] = StartCursor(c)]
    /\ UNCHANGED <<tcp_listener, addr, channel, subscribed_at, socket_reader,
                   read_line, recv_msg, socket_writer, peer, sent, quota>>

\* select! polls read_line, which takes the bytes that arrived (none of them a
\* newline) into the future and stays pending
ReadPending(c) ==
    /\ tcp_listener = "accepting"
    /\ task[c] = "select"
    /\ ~ReadLineReady(c)
    /\ socket_reader[c] # <<>>
    /\ read_line' = [read_line EXCEPT ![c] = @ \o socket_reader[c]]
    /\ socket_reader' = [socket_reader EXCEPT ![c] = <<>>]
    /\ UNCHANGED <<tcp_listener, task, addr, channel, channel_read, subscribed_at, recv_msg,
                   socket_writer, peer, sent, quota>>

\* select! takes the read_line branch: send((message.clone(), addr)).unwrap(),
\* message.clear()
ReadLine(c) ==
    /\ tcp_listener = "accepting"
    /\ task[c] = "select"
    /\ ReadLineReady(c)
    /\ ~SendWaits
    /\ quota.publish > 0
    /\ socket_reader' = [socket_reader EXCEPT
            ![c] = SubSeq(@, Len(Consumed(c)) + 1, Len(@))]
    /\ read_line' = [read_line EXCEPT ![c] = <<>>]
    /\ IF SendOk
       THEN /\ channel' = Append(channel, SendValue(c))
            /\ UNCHANGED task
       ELSE /\ task' = [task EXCEPT ![c] = "panicked"]
            /\ UNCHANGED channel
    /\ quota' = [quota EXCEPT !.publish = @ - 1]
    /\ UNCHANGED <<tcp_listener, addr, channel_read, subscribed_at, recv_msg,
                   socket_writer, peer, sent>>

\* select! takes the recv branch; the pending read_line future is dropped with
\* the bytes it holds.  recv_msg.unwrap() panics on Err(Lagged); a value of
\* another address goes to write_all, which returns at once for an empty text
Recv(c) ==
    /\ tcp_listener = "accepting"
    /\ task[c] = "select"
    /\ RecvReady(c)
    /\ read_line' = [read_line EXCEPT ![c] = <<>>]
    /\ IF Lagged(c)
       THEN /\ task' = [task EXCEPT ![c] = "panicked"]
            /\ channel_read' = [channel_read EXCEPT ![c] = Len(channel) - BufLen]
            /\ socket_reader' = Drop(socket_reader, c)
            /\ UNCHANGED <<recv_msg, socket_writer>>
       ELSE LET i == RecvIndex(c) IN
            /\ channel_read' = [channel_read EXCEPT ![c] = @ + 1]
            /\ UNCHANGED socket_reader
            /\ IF ~NotOwn(c, channel[i])
               THEN UNCHANGED <<task, recv_msg, socket_writer>>
               ELSE IF channel[i].text = <<>>
               THEN /\ socket_writer' = [socket_writer EXCEPT ![c] = Append(@, i)]
                    /\ UNCHANGED <<task, recv_msg>>
               ELSE /\ task' = [task EXCEPT ![c] = "writing"]
                    /\ recv_msg' = [recv_msg EXCEPT ![c] = i]
                    /\ UNCHANGED socket_writer
    /\ UNCHANGED <<tcp_listener, addr, channel, subscribed_at, peer, sent, quota>>

\* socket_writer.write_all(recv_msg.as_bytes()).await returns Ok
WriteOk(c) ==
    /\ tcp_listener = "accepting"
    /\ task[c] = "writing"
    /\ peer[c] # "reset"
    /\ socket_writer' = [socket_writer EXCEPT ![c] = Append(@, recv_msg[c])]
    /\ recv_msg' = [recv_msg EXCEPT ![c] = 0]
    /\ task' = [task EXCEPT ![c] = "select"]
    /\ UNCHANGED <<tcp_listener, addr, channel, channel_read, subscribed_at, socket_reader,
                   read_line, peer, sent, quota>>

\* socket_writer.write_all(..).await.unwrap() on Err: the peer is gone; the task panics
WriteFail(c) ==
    /\ tcp_listener = "accepting"
    /\ task[c] = "writing"
    /\ peer[c] # "open"
    /\ recv_msg' = [recv_msg EXCEPT ![c] = 0]
    /\ task' = [task EXCEPT ![c] = "panicked"]
    /\ socket_reader' = Drop(socket_reader, c)
    /\ UNCHANGED <<tcp_listener, addr, channel, channel_read, subscribed_at, socket_writer,
                   read_line, peer, sent, quota>>

Next ==
    \/ \E a \in Addrs : Accept(a)
    \/ AcceptFail
    \/ \E c \in Conn, b \in Bytes : ClientSend(c, b)
    \/ \E c \in Conn : ClientClose(c)
    \/ \E c \in Conn : ClientReset(c)
    \/ \E c \in Conn : Start(c)
    \/ \E c \in Conn : ReadPending(c)
    \/ \E c \in Conn : ReadLine(c)
    \/ \E c \in Conn : Recv(c)
    \/ \E c \in Conn : WriteOk(c)
    \/ \E c \in Conn : WriteFail(c)

Spec == Init /\ [][Next]_vars

\* The fair specification.  The runtime polls every spawned task; select! picks
\* among its ready branches at random, so a ready recv is taken in the end; a
\* write to a client that keeps reading completes
LiveWorkload ==
    quota = [accept |-> LiveConn, publish |-> LivePublish, hangup |-> MaxHangup,
             accept_err |-> 1, bytes |-> [b \in Bytes |-> 1], senders |-> Conn]
Fairness ==
    \A c \in Conn : WF_vars(Start(c)) /\ WF_vars(Recv(c)) /\ WF_vars(WriteOk(c))
LiveInit == InitProgram /\ LiveWorkload
LiveSpec == LiveInit /\ [][Next]_vars /\ Fairness

\* ----------------------------------------------------------------- claims
\* Indices of the values write_all wrote completely to the socket of c
Completed(c) == {socket_writer[c][k] : k \in 1..Len(socket_writer[c])}
\* ... and the one it is writing
Handed(c) == Completed(c) \cup (IF recv_msg[c] # 0 THEN {recv_msg[c]} ELSE {})
EndsNL(t) == Len(t) > 0 /\ t[Len(t)] = NL
Sends == 1..Len(channel)

\* C1: no self-echo.  No value a session sent on the channel is ever handed to
\* write_all on that session's own socket; a value is written only by a session
\* whose address differs from the value's origin.
C1_NoSelfEcho ==
    \A c \in Conn : \A i \in Handed(c) :
        channel[i].from # c /\ channel[i].origin # addr[c]
\* A session whose receiver has passed a value of its own and which has written
\* the value of another session
C1_Witness ==
    \E c \in Conn :
        /\ \E i \in Sends : channel[i].from = c /\ subscribed_at[c] < i /\ i <= channel_read[c]
        /\ socket_writer[c] # <<>>

\* C2: fan-out completeness.  A value sent by s1 while s2 holds a subscription is
\* in the end written to the socket of s2, unless the client of s2 ended its
\* connection, s2 fell behind the stored values, or the process exited (which
\* closes every connection).  Checked under LiveSpec.
C2_FanOut ==
    \A s1 \in Conn : \A s2 \in Conn \ {s1} : \A i \in 1..LivePublish :
        (/\ i <= Len(channel) /\ channel[i].from = s1
         /\ task[s2] # "none" /\ subscribed_at[s2] < i)
        ~> (\/ i \in Completed(s2)
            \/ peer[s2] # "open" \/ Lagged(s2) \/ tcp_listener = "panicked")
\* A line of one session written to the socket of another whose client is connected
C2_Witness ==
    \E s1 \in Conn : \E s2 \in Conn \ {s1} : \E i \in Completed(s2) :
        channel[i].from = s1 /\ EndsNL(channel[i].text) /\ peer[s2] = "open"

\* C3: at most once.  No session writes the same value of the channel twice.
C3_AtMostOnce ==
    \A c \in Conn :
        /\ \A j \in 1..Len(socket_writer[c]) : \A k \in 1..Len(socket_writer[c]) :
                j # k => socket_writer[c][j] # socket_writer[c][k]
        /\ recv_msg[c] \notin Completed(c)
\* A session has written two values and is writing a third, after a client hung up
C3_Witness ==
    \E c \in Conn :
        /\ Len(socket_writer[c]) >= 2 /\ recv_msg[c] # 0
        /\ \E d \in Conn : peer[d] # "open"

\* C4: delivery order.  The values written to a socket are in the order of the
\* sends on the channel (a subsequence of it): so two values of one origin
\* arrive in the order sent, and two sessions that both write two values write
\* them in the same order.
C4_DeliveryOrder ==
    \A c \in Conn :
        /\ \A j \in 1..Len(socket_writer[c]) : \A k \in 1..Len(socket_writer[c]) :
                j < k => socket_writer[c][j] < socket_writer[c][k]
        /\ \A i \in Completed(c) : recv_msg[c] = 0 \/ i < recv_msg[c]
\* Two sessions have both written the same two values of a third one
C4_Witness ==
    \E c \in Conn : \E d \in Conn \ {c} : \E i \in Sends : \E j \in Sends :
        /\ i < j /\ channel[i].from = channel[j].from
        /\ {i, j} \subseteq Completed(c) /\ {i, j} \subseteq Completed(d)

\* C5: a late joiner gets no history.  A session writes only values sent after
\* its subscription was created.
C5_NoHistory ==
    \A c \in Conn : \A i \in Handed(c) : i > subscribed_at[c]
\* A session that subscribed after a value was sent has written a later value
C5_Witness ==
    \E c \in Conn : subscribed_at[c] > 0 /\ socket_writer[c] # <<>>

\* C6: a disconnect ends the session.  Once a read of a session reported the end
\* of the stream or an error (it sent a text that does not end in a newline: the
\* only reads that yield one), that session sends nothing more on the channel.
C6_DisconnectTerminates ==
    \A i \in Sends : \A j \in Sends :
        (i < j /\ ~EndsNL(channel[i].text)) => channel[j].from # channel[i].from

\* C7: isolation.  A hang-up of one client never ends the session of another:
\* while the clients have sent no more lines than the channel stores, a session
\* whose own client is connected is never ended.
LinesSent(c) == Cardinality({k \in 1..Len(sent[c]) : sent[c][k] = NL})
RECURSIVE SumLines(_)
SumLines(S) == IF S = {} THEN 0 ELSE LET c == CHOOSE d \in S : TRUE IN LinesSent(c) + SumLines(S \ {c})
C7_Isolation ==
    SumLines(Conn) <= BufLen =>
        \A c \in Conn : peer[c] = "open" => task[c] # "panicked"

\* C8: lag is not fatal.  A session in its loop whose receiver fell behind the
\* stored values stays in its loop.
C8_LagNotFatal ==
    [][\A c \in Conn : (task[c] = "select" /\ Lagged(c)) => task'[c] # "panicked"]_vars

\* C9: a slow subscriber never wedges the channel.  However far the receivers of
\* other sessions are behind, a session in its loop with a read that completes
\* can send; and a session that has not fallen behind the stored values was
\* handed every value of the others from its subscription up to its cursor.
C9_SlowSubscriber ==
    /\ \A c \in Conn :
          (/\ tcp_listener = "accepting" /\ task[c] = "select"
           /\ ReadLineReady(c) /\ quota.publish > 0) => ENABLED ReadLine(c)
    /\ \A d \in Conn :
          Running(d) =>
            Handed(d) = {i \in (subscribed_at[d] + 1)..channel_read[d] : channel[i].from # d}
\* A session sent a value while the receiver of another was already behind by
\* more than the channel stores
C9_Witness ==
    \E c \in Conn : \E d \in Conn \ {c} :
        /\ Running(d) /\ Len(channel) - channel_read[d] >= BufLen + 2
        /\ task[c] = "select" /\ channel[Len(channel)].from = c

\* C10: only complete lines are sent on the channel: every text is non-empty
\* and ends with the newline.
C10_OnlyCompleteLines ==
    \A i \in Sends : EndsNL(channel[i].text)

\* The complete lines of a byte sequence, in order (a trailing part without a
\* newline is no line)
RECURSIVE Lines(_)
Lines(s) ==
    IF ~HasNL(s) THEN <<>>
    ELSE <<SubSeq(s, 1, FirstNL(s))>> \o Lines(SubSeq(s, FirstNL(s) + 1, Len(s)))
\* The newline-terminated texts session c sent on the channel, in order
RECURSIVE LineTextsOf(_, _)
LineTextsOf(c, ch) ==
    IF ch = <<>> THEN <<>>
    ELSE (IF Head(ch).from = c /\ EndsNL(Head(ch).text) THEN <<Head(ch).text>> ELSE <<>>)
         \o LineTextsOf(c, Tail(ch))

\* C11: line-to-message exactness.  The newline-terminated texts a session sent
\* on the channel are, one for one and in order, the first complete lines its
\* client sent: no byte is lost, duplicated or moved to another line, however
\* the bytes arrived and whatever the session received in between.
C11_LineExactness ==
    \A c \in Conn :
        LET P == LineTextsOf(c, channel)
            L == Lines(sent[c])
        IN  Len(P) <= Len(L) /\ \A k \in 1..Len(P) : P[k] = L[k]

\* C12: an accept failure is recovered.  The listener loop never ends: it is
\* accepting in every state.
C12_AcceptRecovered ==
    tcp_listener = "accepting"

\* C13: publish always succeeds.  Every step in which a session takes its
\* read_line branch appends its value to the channel and leaves the session in
\* its loop, whatever the number of other sessions.
C13_PublishSucceeds ==
    [][\A c \in Conn :
        ReadLine(c) => (channel' = Append(channel, SendValue(c)) /\ task'[c] = "select")]_vars
\* The only session ever accepted has sent a value
C13_Witness ==
    \E c \in Conn :
        /\ task[c] = "select" /\ \A d \in Conn \ {c} : task[d] = "none"
        /\ channel # <<>>

\* C14: release on exit.  A session that ended (its task panicked on a write
\* error or on Lagged) or whose read reported the end of the stream or an error
\* (it sent a text that does not end in a newline) holds no receiver and no
\* socket any more.
ReadEnded(c) == \E i \in Sends : channel[i].from = c /\ ~EndsNL(channel[i].text)
C14_ReleaseOnExit ==
    \A c \in Conn :
        (task[c] = "panicked" \/ ReadEnded(c)) =>
            (~Running(c) /\ socket_reader[c] = <<>> /\ read_line[c] = <<>> /\ recv_msg[c] = 0)

\* C15: one event per iteration.  A step of the read_line branch sends one
\* value and leaves the receiver's cursor alone; a step of the recv branch moves
\* the cursor by one, sends nothing and leaves the inbound bytes (those still
\* in the stream and those the pending read holds) alone.
C15_OneEvent ==
    [][\A c \in Conn :
        /\ ReadLine(c) =>
            (Len(channel') = Len(channel) + 1 /\ channel_read'[c] = channel_read[c])
        /\ Recv(c) =>
            (/\ channel_read'[c] = channel_read[c] + 1 /\ channel' = channel
             /\ socket_reader'[c] = socket_reader[c] /\ read_line'[c] = read_line[c])]_vars

\* The values a receiver can still obtain: those after its cursor that the
\* channel still stores
Obtainable(c) ==
    Cardinality({i \in (channel_read[c] + 1)..Len(channel) : i > Len(channel) - BufLen})

\* C16 as stated: no subscription can still obtain more values than the
\* capacity asked for, 10.
C16_BoundedRetention ==
    \A c \in Conn : Running(c) => Obtainable(c) <= Capacity
\* C16 amended: the channel stores the capacity rounded up to a power of two,
\* 16 values: a recv that yields a value yields one of the last 16 sent, so a
\* subscription never obtains a value that is more than 16 sends old.
C16_BoundedRetention_Amended ==
    [][\A c \in Conn :
        (task[c] = "select" /\ channel_read'[c] = channel_read[c] + 1 /\ task'[c] # "panicked")
            => channel_read[c] >= Len(channel) - BufLen]_vars
\* A session in its loop has not lagged and can still obtain 16 values, all
\* of another session
C16_Witness ==
    \E c \in Conn :
        /\ task[c] = "select" /\ ~Lagged(c) /\ Obtainable(c) = BufLen
        /\ \A i \in (channel_read[c] + 1)..Len(channel) : channel[i].from # c

\* C17: a session is never ended by its own traffic.  While every value on the
\* channel was sent by one session and its client is connected, that session
\* is not ended.
C17_OwnTraffic ==
    \A c \in Conn :
        ((\A i \in Sends : channel[i].from = c) /\ peer[c] = "open") => task[c] # "panicked"

\* C18: no gap at session start.  The receiver of a session is made at accept:
\* a task that has not run yet has its cursor where the channel ended at accept,
\* and a running session was handed every value of the others sent since accept
\* that its cursor has passed.
C18_NoGap ==
    \A c \in Conn :
        /\ task[c] = "spawned" => channel_read[c] = subscribed_at[c]
        /\ Running(c) =>
            \A i \in (subscribed_at[c] + 1)..channel_read[c] :
                channel[i].from # c => i \in Handed(c)
\* A value of another session was sent after a session was accepted and before
\* its task first ran
C18_Witness ==
    \E c \in Conn :
        /\ task[c] = "spawned" /\ Len(channel) > subscribed_at[c]
        /\ channel[subscribed_at[c] + 1].from # c

====
